---- MODULE Spec2Model ----
(***************************************************************************)
(* A model of the NBT decoder and renderer of harrynull/nbtparser          *)
(* (nbtparser/parser.go and its ParseNBT entry point).                     *)
(*                                                                         *)
(* A Go byte slice is modelled with its length AND its capacity: a slice   *)
(* expression s[a:b] is bounded by cap(s), an index expression s[i] and    *)
(* the open slice s[a:] by len(s).  Fixed-width unsigned arithmetic wraps  *)
(* (uint16 modulo 2^16, uint32 modulo 2^32, kept as two 16-bit halves);    *)
(* uint and int are 64 bits wide, as on amd64/arm64 builds.                *)
(***************************************************************************)
EXTENDS Integers, Sequences, FiniteSets, TLC

VARIABLES
    data,     \* the []byte handed to the decoder (after optional gunzip)
    origin,   \* ghost: how the input was built (never read by the decoder)
    pc,       \* which entry point has run
    fn,       \* the dispatch-table key of a direct decoder call
    result,   \* what the call returned: a value and a count, or a panic
    text,     \* the string buffer NamedTag.Print appends to
    stack,    \* the call stack of the stepwise run
    retval    \* the return register of the stepwise run

vars == <<data, origin, pc, fn, result, text, stack, retval>>

---------------------------------------------------------------------------
(* Tag type identifiers, parser.go `const ( TAG_End TagType = iota ... )`. *)

TAG_End == 0
TAG_Byte == 1
TAG_Short == 2
TAG_Int == 3
TAG_Long == 4
TAG_Float == 5
TAG_Double == 6
TAG_Byte_Array == 7
TAG_String == 8
TAG_List == 9
TAG_Compound == 10

\* The keys of the map literal tagParseFuncs: a lookup of any other key
\* yields the nil func.
TagTypes == TAG_End .. TAG_Compound

---------------------------------------------------------------------------
(* Go slices.  A buffer is [head, fill, len, cap]: element i (0-based) of  *)
(* the underlying array is head[i+1] while i < Len(head) and fill after    *)
(* that; len and cap are those of the slice handed to the decoder.  Every  *)
(* sub-slice the decoder takes is  data[off:]  of that buffer, so a slice  *)
(* is a pair (b, off).                                                     *)

At(b, i) == IF i < Len(b.head) THEN b.head[i + 1] ELSE b.fill

LenAt(b, off) == b.len - off

CapAt(b, off) == b.cap - off

\* s[i] panics unless 0 <= i < len(s).
IndexOK(b, off, i) == i < LenAt(b, off)

\* s[lo:hi] panics unless 0 <= lo <= hi <= cap(s).
SliceOK(b, off, lo, hi) == lo <= hi /\ hi <= CapAt(b, off)

\* s[lo:] is s[lo:len(s)]: it panics unless lo <= len(s).
SliceFromOK(b, off, lo) == lo <= LenAt(b, off)

\* The bytes of s[lo:hi], copied out.
Bytes(b, off, lo, hi) == [i \in 1 .. (hi - lo) |-> At(b, off + lo + i - 1)]

---------------------------------------------------------------------------
(* encoding/binary.BigEndian and the fixed-width integer conversions.      *)

Uint16(b, off) == At(b, off) * 256 + At(b, off + 1)

\* A uint32 as its two 16-bit halves.
Uint32(b, off) == [hi |-> Uint16(b, off), lo |-> Uint16(b, off + 2)]

Uint64(b, off) == [hi |-> Uint32(b, off), lo |-> Uint32(b, off + 4)]

\* uint16 addition: k + x, wrapping.
Add16(k, x) == (k + x) % 65536

\* uint32 addition: k + x for a small constant k, wrapping.
Add32(k, x) ==
    [hi |-> (x.hi + ((x.lo + k) \div 65536)) % 65536, lo |-> (x.lo + k) % 65536]

\* int16(x) of a uint16.
int16(x) == IF x >= 32768 THEN x - 65536 ELSE x

\* int32(x) of a uint32.
int32(x) == int16(x.hi) * 65536 + x.lo

\* int64(x) of a uint64: the signed high half and the unsigned low half.
int64(x) == [hi |-> int32(x.hi), lo |-> x.lo]

\* Whether a uint32, used as a slice bound or converted to uint/int, exceeds
\* every capacity a buffer of the model has (those stay below 2^31).
Huge(x) == x.hi >= 32768

\* uint(x) / int(x) of a uint32 that is not Huge.
Widen(x) == x.hi * 65536 + x.lo

---------------------------------------------------------------------------
(* Values.  A Tag (interface{}) is a record naming its dynamic Go type.    *)

Nil == [k |-> "nil"]

Ok(v, n) == [ok |-> TRUE, val |-> v, n |-> n, err |-> "none"]

Panic(e) == [ok |-> FALSE, val |-> Nil, n |-> 0, err |-> e]

NamedTag(t, name, payload) == [tagType |-> t, name |-> name, payload |-> payload]

ListTag(t, elements) == [k |-> "ListTag", listType |-> t, elements |-> elements]

---------------------------------------------------------------------------
(* The decoders, each as the function it is: from the slice (b, off) to    *)
(* Ok(value, bytes consumed) or to the runtime panic that ends the         *)
(* process.                                                                *)

IndexPanic == Panic("index out of range")

SlicePanic == Panic("slice bounds out of range")

NilFuncPanic == Panic("nil func call")

RECURSIVE tagParseFuncs(_, _, _)
RECURSIVE parseNamedTag(_, _)
RECURSIVE compoundLoop(_, _, _, _)
RECURSIVE listLoop(_, _, _, _, _, _, _)

\* TAG_Byte: return payload[0], 1.  payload[0] is a byte, Go's uint8.
parseByte(b, off) ==
    IF IndexOK(b, off, 0)
    THEN Ok([k |-> "uint8", i |-> At(b, off)], 1)
    ELSE IndexPanic

\* TAG_Short: int16(binary.BigEndian.Uint16(payload[0:2])), 2.
parseShort(b, off) ==
    IF SliceOK(b, off, 0, 2)
    THEN Ok([k |-> "int16", i |-> int16(Uint16(b, off))], 2)
    ELSE SlicePanic

\* TAG_Int: int32(binary.BigEndian.Uint32(payload[0:4])), 4.
parseInt(b, off) ==
    IF SliceOK(b, off, 0, 4)
    THEN Ok([k |-> "int32", i |-> int32(Uint32(b, off))], 4)
    ELSE SlicePanic

\* TAG_Long: int64(binary.BigEndian.Uint64(payload[0:8])), 8.
parseLong(b, off) ==
    IF SliceOK(b, off, 0, 8)
    THEN Ok([k |-> "int64", i |-> int64(Uint64(b, off))], 8)
    ELSE SlicePanic

\* TAG_Float: math.Float32frombits(binary.BigEndian.Uint32(payload[0:4])), 4.
parseFloat(b, off) ==
    IF SliceOK(b, off, 0, 4)
    THEN Ok([k |-> "float32", bits |-> Uint32(b, off)], 4)
    ELSE SlicePanic

\* TAG_Double: math.Float64frombits(binary.BigEndian.Uint64(payload[0:8])), 8.
parseDouble(b, off) ==
    IF SliceOK(b, off, 0, 8)
    THEN Ok([k |-> "float64", bits |-> Uint64(b, off)], 8)
    ELSE SlicePanic

\* TAG_Byte_Array: length is a uint32 and so is 4+length.
parseByteArray(b, off) ==
    IF ~SliceOK(b, off, 0, 4) THEN SlicePanic
    ELSE LET length == Uint32(b, off)
             high == Add32(4, length)
         IN  IF Huge(high) \/ ~SliceOK(b, off, 4, Widen(high)) THEN SlicePanic
             ELSE Ok([k |-> "[]byte", s |-> Bytes(b, off, 4, Widen(high))],
                     Widen(high))

\* TAG_String: length is a uint16 and so is 2+length.
parseString(b, off) ==
    IF ~SliceOK(b, off, 0, 2) THEN SlicePanic
    ELSE LET length == Uint16(b, off)
             high == Add16(2, length)
         IN  IF ~SliceOK(b, off, 2, high) THEN SlicePanic
             ELSE Ok([k |-> "string", s |-> Bytes(b, off, 2, high)], high)

\* A loop that forgets to move its cursor.
advanceStuck(current, length) == current

\* current += length.
advance(current, length) == current + length

\* parseCompoundTag's  for { ... }  from the offset current on, ret so far.
compoundLoop(b, off, current, ret) ==
    IF ~SliceFromOK(b, off, current) THEN SlicePanic
    ELSE LET r == parseNamedTag(b, off + current)
         IN  IF ~r.ok THEN r
             ELSE IF r.val.tagType = TAG_End
                  THEN Ok([k |-> "[]NamedTag", elems |-> ret], advance(current, r.n))
                  ELSE compoundLoop(b, off, advance(current, r.n), Append(ret, r.val))

parseCompoundTag(b, off) == compoundLoop(b, off, 0, <<>>)

\* i < int(length), int being 64 bits wide.
IntLess(i, length) == Huge(length) \/ i < Widen(length)

\* parseListTag's  for i := 0; i < int(length); i++  from i on.
listLoop(b, off, tagType, length, i, current, ret) ==
    IF ~IntLess(i, length) THEN Ok(ListTag(tagType, ret), current)
    ELSE IF ~SliceFromOK(b, off, current) THEN SlicePanic
    ELSE LET r == tagParseFuncs(tagType, b, off + current)
         IN  IF ~r.ok THEN r
             ELSE listLoop(b, off, tagType, length, i + 1,
                           advance(current, r.n), Append(ret, r.val))

parseListTag(b, off) ==
    IF ~IndexOK(b, off, 0) THEN IndexPanic
    ELSE IF ~SliceOK(b, off, 1, 5) THEN SlicePanic
    ELSE listLoop(b, off, At(b, off), Uint32(b, off + 1), 0, 5, <<>>)

\* The map literal: tagParseFuncs[t](payload).  A key the literal does not
\* hold yields the nil func, and calling it panics.
tagParseFuncs(t, b, off) ==
    CASE t = TAG_End -> Ok(Nil, 0)
      [] t = TAG_Byte -> parseByte(b, off)
      [] t = TAG_Short -> parseShort(b, off)
      [] t = TAG_Int -> parseInt(b, off)
      [] t = TAG_Long -> parseLong(b, off)
      [] t = TAG_Float -> parseFloat(b, off)
      [] t = TAG_Double -> parseDouble(b, off)
      [] t = TAG_Byte_Array -> parseByteArray(b, off)
      [] t = TAG_String -> parseString(b, off)
      [] t = TAG_Compound -> parseCompoundTag(b, off)
      [] t = TAG_List -> parseListTag(b, off)
      [] OTHER -> NilFuncPanic

\* tagParseFuncsRef = tagParseFuncs, set by ParseNBT before any decoding.
tagParseFuncsRef(t, b, off) == tagParseFuncs(t, b, off)

\* uint(uint(payloadStart) + payloadLength)
namedConsumed(payloadStart, payloadLength) == payloadStart + payloadLength

\* The part of parseNamedTag after the header: data[payloadStart:] is
\* sliced, then the decoder looked up for the tag type is called on it.
namedPayload(b, off, tagType, name, payloadStart) ==
    IF ~SliceFromOK(b, off, payloadStart) THEN SlicePanic
    ELSE LET r == tagParseFuncsRef(tagType, b, off + payloadStart)
         IN  IF ~r.ok THEN r
             ELSE Ok(NamedTag(tagType, name, r.val),
                     namedConsumed(payloadStart, r.n))

\* nameLength and payloadStart are uint16, and so is 3 + nameLength.
parseNamedTag(b, off) ==
    IF ~IndexOK(b, off, 0) THEN IndexPanic
    ELSE LET tagType == At(b, off)
         IN  IF tagType # TAG_End
             THEN IF ~SliceOK(b, off, 1, 3) THEN SlicePanic
                  ELSE LET nameLength == Uint16(b, off + 1)
                           high == Add16(3, nameLength)
                       IN  IF ~SliceOK(b, off, 3, high) THEN SlicePanic
                           ELSE namedPayload(b, off, tagType,
                                             Bytes(b, off, 3, high), high)
             ELSE namedPayload(b, off, tagType, <<>>, 1)

\* ParseNBT(data, false): tag, _ := parseNamedTag(data); return tag.  With
\* isCompressed the same call runs on the gunzipped bytes, which is what
\* data then stands for.
ParseNBT(b) ==
    LET r == parseNamedTag(b, 0)
    IN  IF r.ok THEN Ok(r.val, 0) ELSE r

---------------------------------------------------------------------------
(* The renderer.  The text is a sequence of tokens [c, s, v]: a character  *)
(* (c its code: the bytes of names and strings, the spaces of a prefix,    *)
(* the line feed), a piece of a format string (s), or the %v / %d          *)
(* rendering of a number or a byte slice (v the value), which holds no     *)
(* line feed.                                                              *)

Chr(c) == [c |-> c, s |-> "", v |-> Nil]

Lit(s) == [c |-> -1, s |-> s, v |-> Nil]

Fmt(v) == [c |-> -1, s |-> "", v |-> v]

NL == Chr(10)

\* A string given by its bytes, as text.
Str(bs) == [i \in DOMAIN bs |-> Chr(bs[i])]

\* "  " + prefix
Indent(prefix) == <<Chr(32), Chr(32)>> \o prefix

\* typeToString[tagType]: the empty string for a key the map does not hold.
typeToString(t) ==
    CASE t = TAG_End -> <<Lit("TAG_End")>>
      [] t = TAG_Byte -> <<Lit("TAG_Byte")>>
      [] t = TAG_Short -> <<Lit("TAG_Short")>>
      [] t = TAG_Int -> <<Lit("TAG_Int")>>
      [] t = TAG_Long -> <<Lit("TAG_Long")>>
      [] t = TAG_Float -> <<Lit("TAG_Float")>>
      [] t = TAG_Double -> <<Lit("TAG_Double")>>
      [] t = TAG_Byte_Array -> <<Lit("TAG_Byte_Array")>>
      [] t = TAG_String -> <<Lit("TAG_String")>>
      [] t = TAG_List -> <<Lit("TAG_List")>>
      [] t = TAG_Compound -> <<Lit("TAG_Compound")>>
      [] OTHER -> <<>>

\* fmt's %v of a payload that is neither a Compound nor a List.
FmtV(v) ==
    CASE v.k = "string" -> Str(v.s)
      [] v.k = "nil" -> <<Lit("<nil>")>>
      [] OTHER -> <<Fmt(v)>>

\* fmt's %d of a length.
FmtD(n) == <<Fmt([k |-> "int", i |-> n])>>

RECURSIVE printUnnamedTag(_, _, _)
RECURSIVE NamedTag_Print(_, _)
RECURSIVE printElements(_, _, _)
RECURSIVE printChildren(_, _)

\* for _, element := range elements { element.Print(buffer, "  "+prefix) }
printChildren(elements, prefix) ==
    IF elements = <<>> THEN <<>>
    ELSE NamedTag_Print(Head(elements), Indent(prefix))
         \o printChildren(Tail(elements), prefix)

\* for _, element := range tagList.elements {
\*     printUnnamedTag(buffer, "  "+prefix, element, tagList.listType) }
printElements(elements, listType, prefix) ==
    IF elements = <<>> THEN <<>>
    ELSE printUnnamedTag(Indent(prefix), Head(elements), listType)
         \o printElements(Tail(elements), listType, prefix)

\* What both printers append after the head of the line.
printBody(prefix, tag, tagType) ==
    IF tagType = TAG_Compound
    THEN <<Lit(": ")>> \o FmtD(Len(tag.elems)) \o <<Lit(" entries"), NL>>
         \o prefix \o <<Lit("{"), NL>>
         \o printChildren(tag.elems, prefix)
         \o prefix \o <<Lit("}"), NL>>
    ELSE IF tagType = TAG_List
    THEN <<Lit(": ")>> \o FmtD(Len(tag.elements)) \o <<Lit(" entries of type ")>>
         \o typeToString(tag.listType) \o <<NL>>
         \o prefix \o <<Lit("{"), NL>>
         \o printElements(tag.elements, tag.listType, prefix)
         \o prefix \o <<Lit("}"), NL>>
    ELSE <<Lit(": ")>> \o FmtV(tag) \o <<NL>>

\* What printUnnamedTag appends to *buffer.
printUnnamedTag(prefix, tag, tagType) ==
    prefix \o typeToString(tagType) \o printBody(prefix, tag, tagType)

\* What tag.Print(buffer, prefix) appends to *buffer.
NamedTag_Print(tag, prefix) ==
    prefix \o typeToString(tag.tagType)
    \o <<Lit("(\"")>> \o Str(tag.name) \o <<Lit("\")")>>
    \o printBody(prefix, tag.payload, tag.tagType)

---------------------------------------------------------------------------
(* Inputs.  The wire format as parser.go documents it (the comments on the *)
(* TagType constants and at the head of parseNamedTag), used to build the  *)
(* buffers the decoder is run on.  A wire record is [bytes, parts]: its    *)
(* bytes and the byte lengths of its children or elements.                 *)

MaxCount == 2       \* most elements of a generated List
MaxChildren == 2    \* most children of a generated Compound
MaxSpare == 8       \* most spare capacity behind a generated slice

RECURSIVE Flat(_)
Flat(ss) == IF ss = <<>> THEN <<>> ELSE Head(ss) \o Flat(Tail(ss))

LenSeq(ss) == [i \in DOMAIN ss |-> Len(ss[i])]

BSeq(S, n) == UNION {[1 .. k -> S] : k \in 0 .. n}

\* The payloads of the tag types that hold no other tag.
ScalarWire(t) ==
    CASE t = TAG_End -> {<<>>}
      [] t = TAG_Byte -> {<<5>>, <<255>>}
      [] t = TAG_Short -> {<<0, 5>>, <<255, 254>>}
      [] t = TAG_Int -> {<<0, 0, 0, 5>>, <<255, 255, 255, 254>>}
      [] t = TAG_Long -> {<<0, 0, 0, 0, 0, 0, 0, 5>>,
                          <<255, 255, 255, 255, 255, 255, 255, 254>>}
      [] t = TAG_Float -> {<<63, 128, 0, 0>>}
      [] t = TAG_Double -> {<<63, 240, 0, 0, 0, 0, 0, 0>>}
      [] t = TAG_Byte_Array -> {<<0, 0, 0, 0>>, <<0, 0, 0, 2, 1, 2>>}
      [] t = TAG_String -> {<<0, 0>>, <<0, 1, 97>>, <<0, 1, 10>>}

Names == {<<>>, <<120>>, <<10>>}

\* byte tagType; TAG_String name; [payload]
NamedWire(t, nm, p) == <<t, Len(nm) \div 256, Len(nm) % 256>> \o nm \o p

\* TAG_Byte tagId; TAG_Int length; the elements, unnamed.
ListWire(t, elems) ==
    [bytes |-> <<t, 0, 0, 0, Len(elems)>> \o Flat(elems), parts |-> LenSeq(elems)]

\* Named tags until a TAG_End.
CompoundWire(children) ==
    [bytes |-> Flat(children) \o <<TAG_End>>, parts |-> LenSeq(children)]

Leaves ==
    UNION {{NamedWire(t, nm, p) : nm \in Names, p \in ScalarWire(t)} :
           t \in TAG_Byte .. TAG_String}

\* Lists of scalars (and of TAG_End, whose elements take no bytes).
List1 ==
    UNION {{ListWire(t, es) : es \in BSeq(ScalarWire(t), MaxCount)} :
           t \in TAG_End .. TAG_String}

SomeLeaves ==
    {NamedWire(TAG_Byte, <<120>>, <<7>>), NamedWire(TAG_Short, <<>>, <<255, 254>>),
     NamedWire(TAG_String, <<10>>, <<0, 1, 97>>),
     NamedWire(TAG_Byte_Array, <<120>>, <<0, 0, 0, 2, 1, 2>>)}

Compound1 == {CompoundWire(cs) : cs \in BSeq(SomeLeaves, MaxChildren)}

SomeLists ==
    {ListWire(TAG_End, <<>>).bytes, ListWire(TAG_Byte, <<<<1>>, <<2>>>>).bytes,
     ListWire(TAG_End, <<<<>>, <<>>>>).bytes}

SomeCompounds ==
    {CompoundWire(<<>>).bytes,
     CompoundWire(<<NamedWire(TAG_Byte, <<120>>, <<7>>)>>).bytes}

\* Lists of Lists and of Compounds.
List2 ==
    {ListWire(TAG_List, es) : es \in BSeq(SomeLists, MaxCount)}
    \cup {ListWire(TAG_Compound, es) : es \in BSeq(SomeCompounds, MaxCount)}

SomeAggregates ==
    {NamedWire(TAG_List, <<108>>, p) : p \in SomeLists}
    \cup {NamedWire(TAG_Compound, <<10>>, p) : p \in SomeCompounds}
    \cup {NamedWire(TAG_Byte, <<120>>, <<7>>)}

\* Compounds that hold Lists and Compounds.
Compound2 == {CompoundWire(cs) : cs \in BSeq(SomeAggregates, MaxChildren)}

ListWires == List1 \cup List2

CompoundWires == Compound1 \cup Compound2

\* Complete named tags: one TAG_End byte, the leaves, the named aggregates,
\* and the three end-to-end byte strings of the format's documentation.
NamedWires ==
    {<<TAG_End>>} \cup Leaves
    \cup {NamedWire(TAG_List, nm, w.bytes) : nm \in {<<>>, <<108>>}, w \in ListWires}
    \cup {NamedWire(TAG_Compound, nm, w.bytes) : nm \in {<<>>, <<10>>},
                                                  w \in CompoundWires}
    \cup {<<1, 0, 3, 97, 98, 99, 5>>}

Buffer(head, fill, len, cap) == [head |-> head, fill |-> fill, len |-> len, cap |-> cap]

Origin(entry, kind, t, parts, full) ==
    [entry |-> entry, kind |-> kind, fn |-> t, parts |-> parts, full |-> full]

\* A slice that is exactly w, or w with spare capacity behind it.
Exact(w) == {Buffer(w, 0, Len(w), c) : c \in {Len(w), Len(w) + MaxSpare}}

\* A complete tag followed by further bytes.
Trailing(w) == Buffer(w \o <<7, 0>>, 0, Len(w) + 2, Len(w) + 2)

\* The first k bytes of a complete tag: as a slice valid[:k] of the whole
\* buffer, as a buffer of its own, and as a buffer with zeroed spare capacity
\* (what ioutil.ReadFile returns for the cut file).
Prefixes(w) ==
    UNION {{Buffer(w, 0, k, Len(w)), Buffer(SubSeq(w, 1, k), 0, k, k),
            Buffer(SubSeq(w, 1, k), 0, k, k + MaxSpare)} : k \in 0 .. Len(w) - 1}

\* Bare payloads, run through their entry of the dispatch table.
PayloadCases ==
    UNION {{[data |-> d, origin |-> Origin("payload", "compound", TAG_Compound,
                                            w.parts, Len(w.bytes))] :
            d \in Exact(w.bytes)} : w \in CompoundWires}
    \cup UNION {{[data |-> d, origin |-> Origin("payload", "list", TAG_List,
                                                 w.parts, Len(w.bytes))] :
                 d \in Exact(w.bytes)} : w \in ListWires}
    \cup UNION {UNION {{[data |-> d,
                         origin |-> Origin("payload", "scalar", t, <<>>, Len(w))] :
                        d \in Exact(w)} : w \in ScalarWire(t)} :
                t \in TAG_End .. TAG_String}

\* Tag type bytes the dispatch table has no entry for.
BadTypes == {11, 255}

BadTypeCases ==
    {[data |-> Buffer(w, 0, Len(w), Len(w)),
      origin |-> Origin("named", "badtype", TAG_End, <<>>, Len(w))] :
     w \in UNION {{<<t, 0, 0, 5>>, <<t, 0, 1, 120, 5>>, <<t>>,
                   NamedWire(TAG_List, <<108>>, <<t, 0, 0, 0, 0>>),
                   NamedWire(TAG_List, <<108>>, <<t, 0, 0, 0, 1, 5>>),
                   NamedWire(TAG_Compound, <<>>, <<t, 0, 0, 5, 0>>),
                   NamedWire(TAG_Compound, <<>>,
                             NamedWire(TAG_List, <<>>, <<t, 0, 0, 0, 0>>) \o <<0>>)} :
                  t \in BadTypes}}
    \cup
    {[data |-> Buffer(w, 0, Len(w), Len(w)),
      origin |-> Origin("payload", "badlist", TAG_List, <<>>, Len(w))] :
     w \in UNION {{<<t, 0, 0, 0, 0>>, <<t, 0, 0, 0, 1, 5>>,
                   <<t, 255, 255, 255, 255>>} : t \in BadTypes}}

\* Records whose length field is near the top of its range; fill stands for
\* the name or content bytes and for what follows them.
LongNameCases ==
    {[data |-> Buffer(<<TAG_Byte, 255, x>>, f, 3 + 65280 + x + 1, 3 + 65280 + x + 1),
      origin |-> Origin("named", "valid", TAG_End, <<>>, 3 + 65280 + x + 1)] :
     x \in 252 .. 255, f \in {0, 97}}

LongPayloadCases ==
    {[data |-> Buffer(<<255, x>>, 97, 2 + 65280 + x, 2 + 65280 + x),
      origin |-> Origin("payload", "scalar", TAG_String, <<>>, 2 + 65280 + x)] :
     x \in 253 .. 255}
    \cup
    {[data |-> Buffer(<<0, 1, 0, x>>, 97, 4 + 65536 + x, 4 + 65536 + x),
      origin |-> Origin("payload", "scalar", TAG_Byte_Array, <<>>, 4 + 65536 + x)] :
     x \in 0 .. 1}
    \cup
    {[data |-> Buffer(<<TAG_Byte, 255, x>>, 0, 3 + 65280 + x + 2, 3 + 65280 + x + 2),
      origin |-> Origin("payload", "compound", TAG_Compound,
                        <<3 + 65280 + x + 1>>, 3 + 65280 + x + 2)] :
     x \in 252 .. 253}
    \cup
    {[data |-> Buffer(<<TAG_String, 0, 0, 0, 1, 255, x>>, 97,
                      5 + 2 + 65280 + x, 5 + 2 + 65280 + x),
      origin |-> Origin("payload", "list", TAG_List,
                        <<2 + 65280 + x>>, 5 + 2 + 65280 + x)] :
     x \in 253 .. 254}

\* Length and count fields that promise more than the buffer holds.
JunkCases ==
    {[data |-> Buffer(w, 0, Len(w), c),
      origin |-> Origin("payload", "junk", t, <<>>, Len(w))] :
     w \in {<<255, 255, 255, 254, 1, 2>>, <<255, 255, 255, 252>>,
            <<127, 255, 255, 255, 1>>, <<255, 255>>, <<0, 9, 1>>},
     c \in {6, 6 + MaxSpare}, t \in {TAG_Byte_Array, TAG_String}}
    \cup
    {[data |-> Buffer(w, 0, Len(w), c),
      origin |-> Origin("payload", "junk", TAG_List, <<>>, Len(w))] :
     w \in {<<TAG_Byte, 255, 255, 255, 255, 1, 2>>, <<TAG_List, 0, 0, 0, 9>>,
            <<TAG_Compound, 128, 0, 0, 0, 0>>, <<TAG_Byte>>, <<TAG_End, 0>>},
     c \in {7, 7 + MaxSpare}}

\* The buffers the calls are made on: complete named tags (whole, followed
\* by more bytes, cut short), bare payloads, and the malformed ones.
OtherCases ==
    PayloadCases \cup BadTypeCases \cup LongNameCases \cup LongPayloadCases
    \cup JunkCases

Input ==
    \/ \E w \in NamedWires : \E d \in Exact(w) :
           /\ data = d
           /\ origin = Origin("named", "valid", TAG_End, <<>>, Len(w))
    \/ \E w \in NamedWires :
           /\ data = Trailing(w)
           /\ origin = Origin("named", "trailing", TAG_End, <<>>, Len(w))
    \/ \E w \in NamedWires : \E d \in Prefixes(w) :
           /\ data = d
           /\ origin = Origin("named", "prefix", TAG_End, <<>>, Len(w))
    \/ \E c \in OtherCases : data = c.data /\ origin = c.origin

---------------------------------------------------------------------------
(* The calls, each a whole call of an entry point on the buffer.           *)

None == Panic("not run")

Init ==
    /\ Input
    /\ pc = "start"
    /\ fn = origin.fn
    /\ result = None
    /\ text = <<>>
    /\ stack = <<>>
    /\ retval = None

\* main: result := nbtparser.ParseNBT(buffer, ...)
CallParseNBT ==
    /\ pc = "start"
    /\ origin.entry = "named"
    /\ pc' = "ParseNBT"
    /\ result' = ParseNBT(data)
    /\ UNCHANGED <<data, origin, fn, text, stack, retval>>

\* parseNamedTag(data), as ParseNBT and parseCompoundTag call it.
CallParseNamedTag ==
    /\ pc = "start"
    /\ origin.entry = "named"
    /\ pc' = "parseNamedTag"
    /\ result' = parseNamedTag(data, 0)
    /\ UNCHANGED <<data, origin, fn, text, stack, retval>>

\* tagParseFuncsRef[fn](data), as parseNamedTag and parseListTag call it.
CallDecoder ==
    /\ pc = "start"
    /\ origin.entry = "payload"
    /\ pc' = "decoder"
    /\ result' = tagParseFuncsRef(fn, data, 0)
    /\ UNCHANGED <<data, origin, fn, text, stack, retval>>

\* main: var strBuffer string; result.Print(&strBuffer, "")
CallPrint ==
    /\ pc = "ParseNBT"
    /\ result.ok
    /\ pc' = "printed"
    /\ text' = text \o NamedTag_Print(result.val, <<>>)
    /\ UNCHANGED <<data, origin, fn, result, stack, retval>>

Next == CallParseNBT \/ CallParseNamedTag \/ CallDecoder \/ CallPrint

Spec == Init /\ [][Next]_vars

---------------------------------------------------------------------------
(* The same decoder run step by step: one step per call of parseNamedTag,  *)
(* parseCompoundTag or parseListTag, per iteration of their loops and per  *)
(* return.  A frame holds the locals of one call; base is the offset in    *)
(* data of the slice it was called on.  The decoders of the tag types that *)
(* hold no other tag run within the step that calls them.                  *)

Frame(f, base, st, current) ==
    [f |-> f, base |-> base, st |-> st, tagType |-> TAG_End, name |-> <<>>,
     payloadStart |-> 0, length |-> [hi |-> 0, lo |-> 0], i |-> 0,
     current |-> current, ret |-> <<>>]

Top == stack[Len(stack)]

Rest == SubSeq(stack, 1, Len(stack) - 1)

\* The four variables a step writes.
Halt(r) == [pc |-> "panic", stack |-> <<>>, retval |-> None, result |-> r]

Go(s, rv) == [pc |-> "running", stack |-> s, retval |-> rv, result |-> None]

Becomes(o) ==
    /\ pc' = o.pc
    /\ stack' = o.stack
    /\ retval' = o.retval
    /\ result' = o.result
    /\ UNCHANGED <<data, origin, fn, text>>

\* The frame of the decoder the dispatch table holds for an aggregate type.
Callee(t, off) ==
    IF t = TAG_Compound
    THEN Frame("parseCompoundTag", off, "loop", 0)
    ELSE Frame("parseListTag", off, "entry", 5)

\* tagParseFuncsRef[namedTag.tagType](data[payloadStart:]) and the return.
namedCall(fr, tagType, name, payloadStart) ==
    IF ~SliceFromOK(data, fr.base, payloadStart) THEN Halt(SlicePanic)
    ELSE IF tagType \notin TagTypes THEN Halt(NilFuncPanic)
    ELSE IF tagType \in {TAG_Compound, TAG_List}
    THEN Go(Append(Append(Rest, [fr EXCEPT !.st = "wait", !.tagType = tagType,
                                           !.name = name,
                                           !.payloadStart = payloadStart]),
                   Callee(tagType, fr.base + payloadStart)),
            None)
    ELSE LET r == tagParseFuncsRef(tagType, data, fr.base + payloadStart)
         IN  IF ~r.ok THEN Halt(r)
             ELSE Go(Rest, Ok(NamedTag(tagType, name, r.val),
                              namedConsumed(payloadStart, r.n)))

\* parseNamedTag from its first line to the call of the payload decoder.
namedEnter(fr) ==
    IF ~IndexOK(data, fr.base, 0) THEN Halt(IndexPanic)
    ELSE LET tagType == At(data, fr.base)
         IN  IF tagType # TAG_End
             THEN IF ~SliceOK(data, fr.base, 1, 3) THEN Halt(SlicePanic)
                  ELSE LET nameLength == Uint16(data, fr.base + 1)
                           high == Add16(3, nameLength)
                       IN  IF ~SliceOK(data, fr.base, 3, high) THEN Halt(SlicePanic)
                           ELSE namedCall(fr, tagType,
                                          Bytes(data, fr.base, 3, high), high)
             ELSE namedCall(fr, tagType, <<>>, 1)

\* ParseNBT: tag, _ := parseNamedTag(data)
RunStart ==
    /\ pc = "start"
    /\ Becomes(Go(<<Frame("parseNamedTag", 0, "entry", 0)>>, None))

NamedEnter ==
    /\ pc = "running"
    /\ stack # <<>>
    /\ Top.f = "parseNamedTag"
    /\ Top.st = "entry"
    /\ Becomes(namedEnter(Top))

\* parseNamedTag: the payload decoder has returned; return namedTag and
\* uint(payloadStart) + payloadLength.
NamedReturn ==
    /\ pc = "running"
    /\ stack # <<>>
    /\ Top.f = "parseNamedTag"
    /\ Top.st = "wait"
    /\ Becomes(Go(Rest, Ok(NamedTag(Top.tagType, Top.name, retval.val),
                           namedConsumed(Top.payloadStart, retval.n))))

\* parseCompoundTag: parseNamedTag(payload[current:]) is called.
CompoundCall ==
    /\ pc = "running"
    /\ stack # <<>>
    /\ Top.f = "parseCompoundTag"
    /\ Top.st = "loop"
    /\ Becomes(IF ~SliceFromOK(data, Top.base, Top.current) THEN Halt(SlicePanic)
               ELSE Go(Append(Append(Rest, [Top EXCEPT !.st = "wait"]),
                              Frame("parseNamedTag", Top.base + Top.current,
                                    "entry", 0)),
                       None))

\* parseCompoundTag: current += length; break on TAG_End, append otherwise.
CompoundRecv ==
    /\ pc = "running"
    /\ stack # <<>>
    /\ Top.f = "parseCompoundTag"
    /\ Top.st = "wait"
    /\ Becomes(IF retval.val.tagType = TAG_End
               THEN Go(Rest, Ok([k |-> "[]NamedTag", elems |-> Top.ret],
                                advance(Top.current, retval.n)))
               ELSE Go(Append(Rest, [Top EXCEPT !.st = "loop",
                                                !.current = advance(@, retval.n),
                                                !.ret = Append(@, retval.val)]),
                       None))

\* parseListTag: tagType := TagType(payload[0]); length := ...(payload[1:5])
ListEnter ==
    /\ pc = "running"
    /\ stack # <<>>
    /\ Top.f = "parseListTag"
    /\ Top.st = "entry"
    /\ Becomes(IF ~IndexOK(data, Top.base, 0) THEN Halt(IndexPanic)
               ELSE IF ~SliceOK(data, Top.base, 1, 5) THEN Halt(SlicePanic)
               ELSE Go(Append(Rest, [Top EXCEPT !.st = "loop",
                                                !.tagType = At(data, Top.base),
                                                !.length = Uint32(data, Top.base + 1)]),
                       None))

\* One pass of the for loop up to the call of the element decoder.
listIter(fr) ==
    IF ~SliceFromOK(data, fr.base, fr.current) THEN Halt(SlicePanic)
    ELSE IF fr.tagType \notin TagTypes THEN Halt(NilFuncPanic)
    ELSE IF fr.tagType \in {TAG_Compound, TAG_List}
    THEN Go(Append(Append(Rest, [fr EXCEPT !.st = "wait"]),
                   Callee(fr.tagType, fr.base + fr.current)),
            None)
    ELSE LET r == tagParseFuncsRef(fr.tagType, data, fr.base + fr.current)
         IN  IF ~r.ok THEN Halt(r)
             ELSE Go(Append(Rest, [fr EXCEPT !.current = advance(@, r.n),
                                             !.ret = Append(@, r.val),
                                             !.i = @ + 1]),
                     None)

\* parseListTag: i < int(length), and the call of the element decoder.
ListIter ==
    /\ pc = "running"
    /\ stack # <<>>
    /\ Top.f = "parseListTag"
    /\ Top.st = "loop"
    /\ IntLess(Top.i, Top.length)
    /\ Becomes(listIter(Top))

\* parseListTag: an aggregate element has been decoded.
ListRecv ==
    /\ pc = "running"
    /\ stack # <<>>
    /\ Top.f = "parseListTag"
    /\ Top.st = "wait"
    /\ Becomes(Go(Append(Rest, [Top EXCEPT !.st = "loop",
                                           !.current = advance(@, retval.n),
                                           !.ret = Append(@, retval.val),
                                           !.i = @ + 1]),
                  None))

\* parseListTag: the loop is over; return ListTag{tagType, ret}, current.
ListReturn ==
    /\ pc = "running"
    /\ stack # <<>>
    /\ Top.f = "parseListTag"
    /\ Top.st = "loop"
    /\ ~IntLess(Top.i, Top.length)
    /\ Becomes(Go(Rest, Ok(ListTag(Top.tagType, Top.ret), Top.current)))

\* ParseNBT: return tag
RunFinish ==
    /\ pc = "running"
    /\ stack = <<>>
    /\ pc' = "done"
    /\ result' = retval
    /\ UNCHANGED <<data, origin, fn, text, stack, retval>>

RunNext ==
    \/ RunStart
    \/ NamedEnter
    \/ NamedReturn
    \/ CompoundCall
    \/ CompoundRecv
    \/ ListEnter
    \/ ListIter
    \/ ListRecv
    \/ ListReturn
    \/ RunFinish

\* The complete tags the stepwise run is started on, whole and cut short.
RunLists ==
    List2 \cup UNION {{ListWire(t, es) : es \in BSeq(ScalarWire(t), MaxCount)} :
                      t \in {TAG_End, TAG_Byte, TAG_String}}

RunWires ==
    {<<TAG_End>>} \cup Leaves
    \cup {NamedWire(TAG_List, <<108>>, w.bytes) : w \in RunLists}
    \cup {NamedWire(TAG_Compound, <<>>, w.bytes) : w \in Compound2}

RunCuts(w) ==
    UNION {{Buffer(SubSeq(w, 1, k), 0, k, k),
            Buffer(SubSeq(w, 1, k), 0, k, k + MaxSpare)} : k \in 0 .. Len(w) - 1}

RunInput ==
    \/ \E w \in RunWires : \E d \in Exact(w) :
           /\ data = d
           /\ origin = Origin("named", "valid", TAG_End, <<>>, Len(w))
    \/ \E w \in RunWires : \E d \in RunCuts(w) :
           /\ data = d
           /\ origin = Origin("named", "prefix", TAG_End, <<>>, Len(w))
    \/ \E c \in {x \in BadTypeCases \cup LongNameCases : x.origin.entry = "named"} :
           data = c.data /\ origin = c.origin

RunInit ==
    /\ RunInput
    /\ pc = "start"
    /\ fn = origin.fn
    /\ result = None
    /\ text = <<>>
    /\ stack = <<>>
    /\ retval = None

\* The decoder is one goroutine that nothing suspends: a step that can be
\* taken is taken.
SpecRun == RunInit /\ [][RunNext]_vars /\ WF_vars(RunNext)

\* The stepwise run ends as the decoder functions say.
RunAgrees ==
    pc \in {"done", "panic"} => result = parseNamedTag(data, 0)

---------------------------------------------------------------------------
(* What the claims need beyond the program: sums, walks over a decoded     *)
(* tree, and the lines of the rendered text.                               *)

RECURSIVE SumTo(_, _)
\* The sum of the first i entries of a sequence of numbers.
SumTo(ns, i) == IF i = 0 THEN 0 ELSE ns[i] + SumTo(ns, i - 1)

Signed8(x) == IF x >= 128 THEN x - 256 ELSE x

RECURSIVE ValueKnown(_, _)
\* No tag type outside 0..10 anywhere in a payload of type t.
ValueKnown(t, v) ==
    /\ t \in TagTypes
    /\ t = TAG_Compound =>
           \A i \in DOMAIN v.elems : ValueKnown(v.elems[i].tagType, v.elems[i].payload)
    /\ t = TAG_List =>
           /\ v.listType \in TagTypes
           /\ \A i \in DOMAIN v.elements : ValueKnown(v.listType, v.elements[i])

\* The buffer cut to its length: no capacity behind it.
Clip(b) == [b EXCEPT !.cap = b.len]

\* The lines a rendered tree is claimed to consist of.  A line is
\* [indent, start, whole]: it begins with exactly indent spaces, start
\* follows them, and with whole nothing follows start.
ExpLine(d, start, whole) == [indent |-> 2 * d, start |-> start, whole |-> whole]

RECURSIVE ExpBody(_, _, _, _)
RECURSIVE ExpChildren(_, _)
RECURSIVE ExpElements(_, _, _)

ExpChildren(elems, d) ==
    IF elems = <<>> THEN <<>>
    ELSE ExpBody(typeToString(Head(elems).tagType)
                 \o <<Lit("(\"")>> \o Str(Head(elems).name) \o <<Lit("\")")>>,
                 Head(elems).tagType, Head(elems).payload, d)
         \o ExpChildren(Tail(elems), d)

ExpElements(elements, t, d) ==
    IF elements = <<>> THEN <<>>
    ELSE ExpBody(typeToString(t), t, Head(elements), d)
         \o ExpElements(Tail(elements), t, d)

\* The lines of a node of type t at depth d whose line begins with label.
ExpBody(label, t, v, d) ==
    IF t = TAG_Compound
    THEN <<ExpLine(d, label \o <<Lit(": ")>> \o FmtD(Len(v.elems))
                      \o <<Lit(" entries")>>, TRUE),
           ExpLine(d, <<Lit("{")>>, TRUE)>>
         \o ExpChildren(v.elems, d + 1)
         \o <<ExpLine(d, <<Lit("}")>>, TRUE)>>
    ELSE IF t = TAG_List
    THEN <<ExpLine(d, label \o <<Lit(": ")>> \o FmtD(Len(v.elements))
                      \o <<Lit(" entries of type ")>> \o typeToString(v.listType),
                   TRUE),
           ExpLine(d, <<Lit("{")>>, TRUE)>>
         \o ExpElements(v.elements, v.listType, d + 1)
         \o <<ExpLine(d, <<Lit("}")>>, TRUE)>>
    ELSE <<ExpLine(d, label \o <<Lit(": ")>>, FALSE)>>

ExpLines(tag) == ExpChildren(<<tag>>, 0)

\* Where the lines of the text start, and the k-th line (without its line
\* feed).
LineStarts(t) == {1} \cup {i + 1 : i \in {j \in 1 .. Len(t) - 1 : t[j] = NL}}

LineAt(t, k) ==
    LET s == CHOOSE x \in LineStarts(t) :
                 Cardinality({y \in LineStarts(t) : y < x}) = k - 1
        e == CHOOSE x \in s .. Len(t) :
                 t[x] = NL /\ \A y \in s .. x - 1 : t[y] # NL
    IN  SubSeq(t, s, e - 1)

LineMatches(line, e) ==
    /\ Len(line) >= e.indent + Len(e.start)
    /\ \A i \in 1 .. e.indent : line[i] = Chr(32)
    /\ SubSeq(line, e.indent + 1, e.indent + Len(e.start)) = e.start
    /\ e.whole => Len(line) = e.indent + Len(e.start)

---------------------------------------------------------------------------
(* The claims.                                                             *)

\* C1: parseNamedTag on a buffer that holds the whole tag returns, for a
\* first byte 0, the tag {End, "", nil} and 1; otherwise, with L the 2-byte
\* big-endian name length (any of 0..65535), the L bytes after the length
\* field as the name and 1 + 2 + L + payloadBytes, payloadBytes being what
\* the dispatch-table decoder of the tag type reports for the bytes after
\* the name.
C1_NamedTagContract ==
    (pc = "parseNamedTag" /\ origin.kind \in {"valid", "trailing"}) =>
        IF At(data, 0) = TAG_End
        THEN result = Ok(NamedTag(TAG_End, <<>>, Nil), 1)
        ELSE LET L == Uint16(data, 1)
                 p == tagParseFuncs(At(data, 0), data, 3 + L)
             IN  /\ p.ok
                 /\ result.ok
                 /\ result.val = NamedTag(At(data, 0), Bytes(data, 0, 3, 3 + L), p.val)
                 /\ result.n = 1 + 2 + L + p.n

\* C2: parseCompoundTag on a well-formed Compound payload returns the
\* named tags before the first End tag of this level, in buffer order, none
\* of them of type End, and a count that is the sum of the children's
\* counts plus 1 for the End byte.
C2_CompoundContract ==
    (pc = "decoder" /\ origin.kind = "compound") =>
        /\ result.ok
        /\ Len(result.val.elems) = Len(origin.parts)
        /\ \A i \in DOMAIN origin.parts :
               LET c == parseNamedTag(data, SumTo(origin.parts, i - 1))
               IN  /\ c.ok
                   /\ c.n = origin.parts[i]
                   /\ result.val.elems[i] = c.val
                   /\ c.val.tagType # TAG_End
        /\ result.n = SumTo(origin.parts, Len(origin.parts)) + 1

\* C3: parseListTag on a well-formed List payload of element type T and
\* count N returns ListTag{T, elements} with exactly N elements, the i-th
\* being what the dispatch-table decoder of T returns at the offset where
\* the one before it ended (no name read), and 5 + the sum of the elements'
\* counts.
C3_ListContract ==
    (pc = "decoder" /\ origin.kind = "list") =>
        /\ result.ok
        /\ result.val.listType = At(data, 0)
        /\ Len(result.val.elements) = Len(origin.parts)
        /\ Len(origin.parts) = Widen(Uint32(data, 1))
        /\ \A i \in DOMAIN origin.parts :
               LET e == tagParseFuncs(At(data, 0), data,
                                      5 + SumTo(origin.parts, i - 1))
               IN  /\ e.ok
                   /\ e.n = origin.parts[i]
                   /\ result.val.elements[i] = e.val
        /\ result.n = 5 + SumTo(origin.parts, Len(origin.parts))

\* C4: ParseNBT on a proper prefix of a complete named tag ends in an
\* error; it never returns a tree.
C4_TruncationIsAnError ==
    (pc = "ParseNBT" /\ origin.kind = "prefix") => ~result.ok

\* C5: a tag type outside 0..10 ends decoding in an error, as the type byte
\* of a named tag and as the element type of a List (count 0 included): no
\* returned tree holds such a type.
C5_UnknownTypeIsAnError ==
    /\ (pc = "parseNamedTag" /\ data.len >= 1 /\ At(data, 0) \notin TagTypes) =>
           ~result.ok
    /\ (pc = "parseNamedTag" /\ result.ok) =>
           ValueKnown(result.val.tagType, result.val.payload)
    /\ (pc = "decoder" /\ result.ok) => ValueKnown(fn, result.val)

\* C6: the Byte, Short, Int and Long decoders return the signed
\* two's-complement big-endian value of 1, 2, 4 and 8 bytes and consume that
\* many (0xFF is -1 as a Byte), and 01 00 03 61 62 63 05 decodes to
\* {Byte, "abc", 5} consuming 7.
C6_SignedScalars ==
    /\ (pc = "decoder" /\ origin.kind = "scalar" /\ fn = TAG_Byte) =>
           result.ok /\ result.n = 1 /\ result.val.i = Signed8(At(data, 0))
    /\ (pc = "decoder" /\ origin.kind = "scalar" /\ fn = TAG_Short) =>
           /\ result.ok /\ result.n = 2
           /\ result.val.i = Signed8(At(data, 0)) * 256 + At(data, 1)
    /\ (pc = "decoder" /\ origin.kind = "scalar" /\ fn = TAG_Int) =>
           /\ result.ok /\ result.n = 4
           /\ result.val.i = ((Signed8(At(data, 0)) * 256 + At(data, 1)) * 256
                              + At(data, 2)) * 256 + At(data, 3)
    /\ (pc = "decoder" /\ origin.kind = "scalar" /\ fn = TAG_Long) =>
           /\ result.ok /\ result.n = 8
           /\ result.val.i.hi = ((Signed8(At(data, 0)) * 256 + At(data, 1)) * 256
                                 + At(data, 2)) * 256 + At(data, 3)
           /\ result.val.i.lo = [hi |-> At(data, 4) * 256 + At(data, 5),
                                 lo |-> At(data, 6) * 256 + At(data, 7)]
    /\ (pc = "parseNamedTag" /\ data.head = <<1, 0, 3, 97, 98, 99, 5>>
        /\ data.len = 7) =>
           /\ result.ok /\ result.n = 7
           /\ result.val.tagType = TAG_Byte
           /\ result.val.name = <<97, 98, 99>>
           /\ result.val.payload.i = 5

\* C7: on a buffer that holds the whole record, the String decoder returns
\* the N bytes after its 2-byte length N and consumes 2+N, for every N of
\* 0..65535, and the ByteArray decoder the N bytes after its 4-byte length N
\* and 4+N.
C7_LengthPrefixed ==
    /\ (pc = "decoder" /\ fn = TAG_String /\ data.len >= 2
        /\ data.len >= 2 + Uint16(data, 0)) =>
           /\ result.ok
           /\ result.n = 2 + Uint16(data, 0)
           /\ result.val.s = Bytes(data, 0, 2, 2 + Uint16(data, 0))
    /\ (pc = "decoder" /\ fn = TAG_Byte_Array /\ data.len >= 4
        /\ ~Huge(Uint32(data, 0)) /\ data.len - 4 >= Widen(Uint32(data, 0))) =>
           /\ result.ok
           /\ result.n = 4 + Widen(Uint32(data, 0))
           /\ result.val.s = Bytes(data, 0, 4, 4 + Widen(Uint32(data, 0)))

\* C8: the text printed for a decoded tree with prefix "" consists of the
\* lines of its nodes in decode order: a node at depth d contributes a line
\* that starts with exactly 2*d spaces, then the type name (and ("name")
\* for a Compound child, nothing for a List element); a Compound's line
\* ends "<count> entries", a List's "<count> entries of type <name>", each
\* followed by a "{" line, the children and a "}" line at the same depth.
C8_RenderedLines ==
    pc = "printed" =>
        LET exp == ExpLines(result.val)
        IN  /\ Cardinality(LineStarts(text)) = Len(exp)
            /\ \A k \in DOMAIN exp : LineMatches(LineAt(text, k), exp[k])

\* C10: when parseNamedTag returns a tree for a buffer of length n, the
\* count it reports is at most n, the result is the one it returns for the
\* first count bytes alone and for the buffer without its spare capacity
\* (no byte at an index >= n reaches a decoded value), and bytes after a
\* complete tag do not change the result.
C10_ReadsWithinLength ==
    /\ (pc = "parseNamedTag" /\ result.ok) =>
           /\ result.n <= data.len
           /\ result = parseNamedTag(Clip(data), 0)
           /\ result = parseNamedTag(Buffer(data.head, data.fill, result.n, result.n), 0)
    /\ (pc = "parseNamedTag" /\ origin.kind = "trailing") =>
           result = parseNamedTag(Buffer(data.head, data.fill, origin.full,
                                         origin.full), 0)

---------------------------------------------------------------------------
(* Where the decoder and the renderer do behave as stated: the statements  *)
(* above, away from the inputs that break them.                            *)

\* The named-tag, Compound and List contracts for records shorter than
\* 2^16 bytes, where the uint16 sums 3 + nameLength and 2 + length do not
\* wrap.
ContractsBelowWrap ==
    origin.full < 65536 =>
        C1_NamedTagContract /\ C2_CompoundContract /\ C3_ListContract

\* A cut buffer with no capacity behind its length ends in a bounds panic.
TruncationPanicsWithoutSpare ==
    (pc = "ParseNBT" /\ origin.kind = "prefix" /\ data.cap = data.len) =>
        /\ ~result.ok
        /\ result.err \in {"index out of range", "slice bounds out of range"}

\* An unknown type byte of a named tag ends in a panic.
UnknownNamedTypePanics ==
    (pc = "parseNamedTag" /\ data.len >= 1 /\ At(data, 0) \notin TagTypes) =>
        ~result.ok

\* The scalar decoders agree with the signed reading for Bytes below 0x80.
SignedScalarsBelow128 ==
    (fn = TAG_Byte => At(data, 0) < 128) => C6_SignedScalars

\* The String decoder for lengths up to 65533, where 2 + length fits.
LengthPrefixedBelowWrap ==
    (fn = TAG_String => Uint16(data, 0) <= 65533) => C7_LengthPrefixed

RECURSIVE NoLineFeed(_, _)
\* No name and no String of a payload of type t holds a line feed.
NoLineFeed(t, v) ==
    /\ t = TAG_String => \A i \in DOMAIN v.s : v.s[i] # 10
    /\ t = TAG_Compound =>
           \A i \in DOMAIN v.elems :
               /\ \A j \in DOMAIN v.elems[i].name : v.elems[i].name[j] # 10
               /\ NoLineFeed(v.elems[i].tagType, v.elems[i].payload)
    /\ t = TAG_List =>
           \A i \in DOMAIN v.elements : NoLineFeed(v.listType, v.elements[i])

\* The layout of the text of a tree whose names and Strings hold no line
\* feed.
RenderedLinesWithoutLineFeed ==
    (/\ pc = "printed"
     /\ \A j \in DOMAIN result.val.name : result.val.name[j] # 10
     /\ NoLineFeed(result.val.tagType, result.val.payload)) =>
        C8_RenderedLines

\* Nothing past the length is read when there is no capacity past it.
ReadsWithinLengthWithoutSpare ==
    data.cap = data.len => C10_ReadsWithinLength

---------------------------------------------------------------------------
(* Termination of the stepwise run.                                        *)

Done == pc \in {"done", "panic"}

\* A pass of parseCompoundTag's loop leaves the cursor at least 1 further.
CompoundAdvances ==
    CompoundRecv =>
        IF retval.val.tagType = TAG_End
        THEN retval'.n >= Top.current + 1
        ELSE stack'[Len(stack')].current >= Top.current + 1

\* parseListTag returns after exactly int(length) passes of its loop, and a
\* pass over an element of type TAG_End goes on to the next one at the same
\* offset.
ListCounts ==
    /\ ListReturn =>
           /\ ~Huge(Top.length)
           /\ Top.i = Widen(Top.length)
           /\ Len(Top.ret) = Widen(Top.length)
    /\ (ListIter /\ Top.tagType = TAG_End /\ SliceFromOK(data, Top.base, Top.current)) =>
           /\ pc' = "running"
           /\ stack'[Len(stack')].i = Top.i + 1
           /\ stack'[Len(stack')].current = Top.current

\* Calls nest no deeper than the buffer is long (the call ParseNBT makes
\* not counted).
DepthBounded == Len(stack) <= data.len + 1

\* C9: decoding a buffer ends, in a tree or in a panic; each pass of the
\* parseCompoundTag loop advances the cursor by at least 1 byte; the
\* parseListTag loop makes exactly N passes for count N, also when the
\* elements take no bytes (element type End); and the depth of the calls is
\* bounded by the length of the buffer.
C9_DecodingTerminates ==
    /\ <>Done
    /\ [][CompoundAdvances /\ ListCounts]_vars
    /\ []DepthBounded

\* A Compound of two children, one of them a List of two TAG_End elements,
\* has been decoded to the end.
C9_Witness ==
    /\ pc = "done"
    /\ result.ok
    /\ result.val.tagType = TAG_Compound
    /\ Len(result.val.payload.elems) = 2
    /\ \E i \in 1 .. 2 :
           /\ result.val.payload.elems[i].tagType = TAG_List
           /\ result.val.payload.elems[i].payload.listType = TAG_End
           /\ Len(result.val.payload.elems[i].payload.elements) = 2

====
